---- MODULE Spec2Model ----
(***************************************************************************)
(* A model of the Bine book-review application's data layer:               *)
(*   src/bine/models.py           UserManager, User, FriendRelation,       *)
(*                                BookNote, BookNoteLikeit                 *)
(*   src/bine/bine/serializers.py UserSerializer.Meta.update               *)
(*                                                                         *)
(* Tables are bags (multisets) of rows, so that a duplicate row is a state *)
(* the model can express; the auto-increment primary key is abstracted.    *)
(* Character strings are tuples of one-character strings, so that          *)
(* substring search and e-mail normalisation are computed, not assumed.    *)
(***************************************************************************)
EXTENDS Integers, Sequences, FiniteSets, Bags, TLC

VARIABLES
    users,              \* table `users`: sequence of rows, id = position
    friend_relations,   \* table `friend_relations`: bag of rows
    booknotes,          \* table `booknotes`: sequence of rows, in creation order
    booknote_likeit,    \* table `booknote_likeit`: bag of rows
    procs,              \* in-flight requests: one frame per request worker
    last                \* the last completed operation, its inputs and outcome

vars == <<users, friend_relations, booknotes, booknote_likeit, procs, last>>

----------------------------------------------------------------------------
(* Bounds of the model *)

MaxNotes == 2       \* rows the booknotes table may hold
MaxUsers == 2       \* rows create_user may add to the users table
NumProcs == 2       \* concurrent request workers

----------------------------------------------------------------------------
(* Values *)

\* Python's None; every other field value is a tuple of one-character strings
None == <<"None">>

\* `not x` for a string-or-None value
Falsy(x) == x = None \/ x = <<>>

\* FriendRelation.STATUS_CHOICES
STATUS_CHOICES == {"N", "Y", "D"}

\* BookNote.SHARE_CHOICES
SHARE_CHOICES == {"P", "F", "A"}

\* The users present in the friend-graph specifications, as create_user
\* leaves them (is_active, normalised e-mail, hashed password).
SeedUsers ==
    << [username |-> <<"a", "n">>, email |-> <<"a", "@", "x">>,
        fullname |-> <<"z">>, birthday |-> <<"1">>,
        is_staff |-> FALSE, is_active |-> TRUE, is_superuser |-> FALSE,
        sex |-> <<"F">>, tagline |-> <<>>, password |-> <<"pbkdf2", "$", "p">>],
       [username |-> <<"b">>, email |-> <<"b", "@", "x">>,
        fullname |-> <<"a", "n">>, birthday |-> <<"1">>,
        is_staff |-> FALSE, is_active |-> TRUE, is_superuser |-> FALSE,
        sex |-> <<"M">>, tagline |-> <<>>, password |-> <<"pbkdf2", "$", "p">>],
       [username |-> <<"c">>, email |-> <<"c", "@", "x">>,
        fullname |-> <<"y">>, birthday |-> <<"1">>,
        is_staff |-> FALSE, is_active |-> TRUE, is_superuser |-> FALSE,
        sex |-> <<"M">>, tagline |-> <<>>, password |-> <<"pbkdf2", "$", "p">>] >>

\* ids of the rows of the users table
UserIds == DOMAIN users

----------------------------------------------------------------------------
(* friend_relations: row operations *)

\* a new FriendRelation row; status takes its default
FriendRelation(from, to) == [from_user |-> from, to_user |-> to, status |-> "N"]

\* FriendRelation.objects.filter(from_user=from, to_user=to)
filter_relation(rows, from, to) ==
    {r \in BagToSet(rows) : r.from_user = from /\ r.to_user = to}

\* a table in which the unique index is not enforced
unique_together_off(rows, from, to) == TRUE

\* Meta.unique_together = ('from_user', 'to_user'): may (from, to) be inserted?
unique_together(rows, from, to) == filter_relation(rows, from, to) = {}

\* INSERT of a row; the storage layer refuses it (IntegrityError) on a duplicate
create_relation(rows, from, to) ==
    IF unique_together(rows, from, to)
    THEN [rows |-> rows (+) SetToBag({FriendRelation(from, to)}), ok |-> TRUE]
    ELSE [rows |-> rows, ok |-> FALSE]

\* FriendRelation.objects.filter(from_user=from, to_user=to).delete()
delete_relation(rows, from, to) ==
    LET keep == BagToSet(rows) \ filter_relation(rows, from, to)
    IN  [r \in keep |-> rows[r]]

\* objects.get_or_create(from_user=from, to_user=to), run without interruption
get_or_create(rows, from, to) ==
    IF filter_relation(rows, from, to) # {}
    THEN rows
    ELSE create_relation(rows, from, to).rows

----------------------------------------------------------------------------
(* User.add_friend / User.remove_friend, run to completion.                *)
(* db = [rows, calls]: the table, and the trace of calls made so far.      *)

RECURSIVE add_friend(_, _, _, _)
RECURSIVE remove_friend(_, _, _, _)

\* add_friend whose inner call forgets to swap the two users
add_friend_noswap(db, self, friend, symm) ==
    LET db1 == [rows  |-> get_or_create(db.rows, self, friend),
                calls |-> Append(db.calls, <<self, friend, symm>>)]
    IN  IF symm
        THEN [rows  |-> get_or_create(db1.rows, self, friend),
              calls |-> Append(db1.calls, <<self, friend, FALSE>>)]
        ELSE db1

add_friend(db, self, friend, symm) ==
    LET db1 == [rows  |-> get_or_create(db.rows, self, friend),
                calls |-> Append(db.calls, <<self, friend, symm>>)]
    IN  IF symm
        THEN add_friend(db1, friend, self, FALSE)
        ELSE db1

\* remove_friend that ignores symm and deletes its own direction only
remove_friend_oneway(db, self, friend, symm) ==
    [rows  |-> delete_relation(db.rows, self, friend),
     calls |-> Append(db.calls, <<self, friend, symm>>)]

remove_friend(db, self, friend, symm) ==
    LET db1 == [rows  |-> delete_relation(db.rows, self, friend),
                calls |-> Append(db.calls, <<self, friend, symm>>)]
    IN  IF symm
        THEN remove_friend(db1, friend, self, FALSE)
        ELSE db1

\* FriendRelation.get_confirmed_friends(user): the to_user of every row
\* from `user` whose status is 'Y'
get_confirmed_friends(rows, user) ==
    {r.to_user : r \in {x \in BagToSet(rows) : x.from_user = user /\ x.status = "Y"}}

\* FriendRelation.get_unconfirmed_friends(user): likewise, status 'N'
get_unconfirmed_friends(rows, user) ==
    {r.to_user : r \in {x \in BagToSet(rows) : x.from_user = user /\ x.status = "N"}}

\* the request `a.add_friend(b, symm)`
AddFriend(a, b, symm) ==
    LET db == add_friend([rows |-> friend_relations, calls |-> <<>>], a, b, symm)
    IN  /\ friend_relations' = db.rows
        /\ last' = [a |-> a, b |-> b, symm |-> symm, calls |-> db.calls,
                    op |-> "add_friend"]
        /\ UNCHANGED <<users, booknotes, booknote_likeit, procs>>

\* the request `a.remove_friend(b, symm)`
RemoveFriend(a, b, symm) ==
    LET db == remove_friend([rows |-> friend_relations, calls |-> <<>>], a, b, symm)
    IN  /\ friend_relations' = db.rows
        /\ last' = [a |-> a, b |-> b, symm |-> symm, calls |-> db.calls,
                    op |-> "remove_friend",
                    was_friend |-> a \in get_confirmed_friends(friend_relations, b)]
        /\ UNCHANGED <<users, booknotes, booknote_likeit, procs>>

----------------------------------------------------------------------------
(* Initial states *)

NoOp == [op |-> "none"]

\* three users, no relation, no note, no like, no request in flight
InitSeeded ==
    /\ users = SeedUsers
    /\ friend_relations = EmptyBag
    /\ booknotes = <<>>
    /\ booknote_likeit = EmptyBag
    /\ procs = [p \in 1..NumProcs |-> [pc |-> "idle"]]
    /\ last = NoOp

----------------------------------------------------------------------------
(* SpecSymm: symmetric add_friend / remove_friend requests only, each run  *)
(* to completion, from an empty relation table.                            *)

NextSymm ==
    \/ \E a \in UserIds, b \in UserIds : AddFriend(a, b, TRUE)
    \/ \E a \in UserIds, b \in UserIds : RemoveFriend(a, b, TRUE)

SpecSymm == InitSeeded /\ [][NextSymm]_vars

\* a row a->b exists
Related(a, b) == filter_relation(friend_relations, a, b) # {}

\* C1: after any sequence of symmetric add_friend / remove_friend calls from
\* an empty table, a row a->b exists iff a row b->a exists (a = b included),
\* and each symmetric call made exactly one further call: the non-symmetric
\* one on the inverse pair.
C1_Symmetry ==
    /\ \A a \in UserIds, b \in UserIds : Related(a, b) <=> Related(b, a)
    /\ last.op \in {"add_friend", "remove_friend"} =>
           last.calls = << <<last.a, last.b, TRUE>>, <<last.b, last.a, FALSE>> >>

\* C1 witness: a symmetric add between two distinct users has completed and
\* both directed rows exist
C1_Witness ==
    /\ last.op = "add_friend" /\ last.symm /\ last.a # last.b
    /\ Related(last.a, last.b) /\ Related(last.b, last.a)

----------------------------------------------------------------------------
(* Queries of User *)

\* the slice [0:10] of get_user_and_friend_notes
FeedLimit == 10

\* SQL `LIKE %q%`: q occurs in s as a contiguous run
contains(s, q) ==
    \E i \in 0..(Len(s) - Len(q)) : SubSeq(s, i + 1, i + Len(q)) = q

\* s repeated n times
RECURSIVE Repeat(_, _)
Repeat(x, n) == IF n <= 0 THEN <<>> ELSE <<x>> \o Repeat(x, n - 1)

\* number of rows of the bag `rows` that are among `selected`, copies counted
CountRows(rows, selected) ==
    BagCardinality([r \in BagToSet(rows) \cap selected |-> rows[r]])

\* Rows the query of get_user_and_friend_notes yields for note n: booknotes
\* LEFT OUTER JOIN friend_relations ON from_user = the note's author, kept
\* where the author is `self` or the joined row's to_user is `self`.
\* A note of `self` comes once per relation row `self` has (once if none).
JoinedRows(notes, rows, self, n) ==
    LET author == notes[n].user
        FromAuthor == {r \in BagToSet(rows) : r.from_user = author}
        ToSelf == {r \in BagToSet(rows) : r.from_user = author /\ r.to_user = self}
    IN  IF author = self
        THEN IF CountRows(rows, FromAuthor) = 0 THEN 1 ELSE CountRows(rows, FromAuthor)
        ELSE CountRows(rows, ToSelf)

\* the joined rows of notes 1..n, ordered by -created_at (newest note first)
RECURSIVE OrderedJoin(_, _, _, _)
OrderedJoin(notes, rows, self, n) ==
    IF n = 0 THEN <<>>
    ELSE Repeat(n, JoinedRows(notes, rows, self, n))
             \o OrderedJoin(notes, rows, self, n - 1)

\* User.get_user_and_friend_notes: ids of the notes returned, in order
get_user_and_friend_notes(notes, rows, self) ==
    LET all == OrderedJoin(notes, rows, self, Len(notes))
    IN  SubSeq(all, 1, IF Len(all) < FeedLimit THEN Len(all) ELSE FeedLimit)

\* User.friends__id = self.id: the users that have a relation row to `self`
friends__id(rows, self) ==
    {r.from_user : r \in {x \in BagToSet(rows) : x.to_user = self}}

\* User.search_friend(query): ids of the users returned
search_friend(tbl, rows, self, query) ==
    LET matched == {u \in DOMAIN tbl : \/ contains(tbl[u].username, query)
                                       \/ contains(tbl[u].fullname, query)}
    IN  {u \in matched : ~(u = self \/ u \in friends__id(rows, self))}

\* User.get_recommended_friends()
get_recommended_friends(tbl, rows, self) ==
    {u \in DOMAIN tbl : ~(u = self \/ u \in friends__id(rows, self))}

----------------------------------------------------------------------------
(* Writes that the data model allows and whose request code is elsewhere *)

\* a BookNote row; created_at is its position in the table
BookNote(user, share_to) == [user |-> user, share_to |-> share_to]

\* create_note: a user posts a note with a share scope
CreateNote(u, share_to) ==
    /\ Len(booknotes) < MaxNotes
    /\ booknotes' = Append(booknotes, BookNote(u, share_to))
    /\ UNCHANGED <<users, friend_relations, booknote_likeit, procs, last>>

\* the status of an existing relation row a->b becomes s
SetStatus(a, b, s) ==
    /\ \E r \in filter_relation(friend_relations, a, b) :
          /\ r.status # s
          /\ friend_relations' =
                 (friend_relations (-) SetToBag({r}))
                     (+) SetToBag({[r EXCEPT !.status = s]})
    /\ UNCHANGED <<users, booknotes, booknote_likeit, procs, last>>

----------------------------------------------------------------------------
(* Spec: friend requests of either kind, status changes and notes, each    *)
(* request run to completion, between the first two users.                 *)

Init ==
    /\ users = SubSeq(SeedUsers, 1, 2)
    /\ friend_relations = EmptyBag
    /\ booknotes = <<>>
    /\ booknote_likeit = EmptyBag
    /\ procs = [p \in 1..NumProcs |-> [pc |-> "idle"]]
    /\ last = NoOp

Next ==
    \/ \E a \in UserIds, b \in UserIds, symm \in BOOLEAN : AddFriend(a, b, symm)
    \/ \E a \in UserIds, b \in UserIds, symm \in BOOLEAN : RemoveFriend(a, b, symm)
    \/ \E a \in UserIds, b \in UserIds, s \in STATUS_CHOICES : SetStatus(a, b, s)
    \/ \E u \in UserIds, share_to \in SHARE_CHOICES : CreateNote(u, share_to)

Spec == Init /\ [][Next]_vars

\* the search strings tried
Queries == {<<>>, <<"a", "n">>, <<"n">>, <<"b">>}

\* the feed of a viewer in the current state
Feed(viewer) == get_user_and_friend_notes(booknotes, friend_relations, viewer)

\* the authors of the notes in a feed
FeedAuthors(viewer) == {booknotes[Feed(viewer)[i]].user : i \in DOMAIN Feed(viewer)}

\* C3: the feed holds at most 10 records, each authored by the viewer or by
\* a confirmed ('Y') friend of the viewer.
C3_FeedBoundAndAuthorship ==
    \A viewer \in UserIds :
        /\ Len(Feed(viewer)) <= 10
        /\ \A author \in FeedAuthors(viewer) :
               \/ author = viewer
               \/ author \in get_confirmed_friends(friend_relations, viewer)

\* C4: the feed never holds a private ('P') note of a user other than the viewer.
C4_FeedRespectsShareScope ==
    \A viewer \in UserIds :
        \A i \in DOMAIN Feed(viewer) :
            LET note == booknotes[Feed(viewer)[i]]
            IN  ~(note.share_to = "P" /\ note.user # viewer)

\* C5: after a symmetric add_friend(a, b), confirmed_friends(b) contains a
\* exactly when the row b->a has reached status 'Y'; after a symmetric
\* remove_friend(a, b) no row a->b or b->a exists, neither is a confirmed
\* friend of the other, and (a # b) the feed of a holds no note of b.
C5_AddConfirmRemove ==
    /\ (last.op = "add_friend" /\ last.symm) =>
           /\ Related(last.b, last.a) /\ Related(last.a, last.b)
           /\ (\E r \in filter_relation(friend_relations, last.b, last.a) :
                   r.status = "Y")
               <=> last.a \in get_confirmed_friends(friend_relations, last.b)
    /\ (last.op = "remove_friend" /\ last.symm) =>
           /\ ~Related(last.a, last.b) /\ ~Related(last.b, last.a)
           /\ last.a \notin get_confirmed_friends(friend_relations, last.b)
           /\ last.b \notin get_confirmed_friends(friend_relations, last.a)
           /\ last.a # last.b => last.b \notin FeedAuthors(last.a)

\* C5 witness: b was a confirmed friend holding a's row, has posted a note,
\* and the symmetric remove_friend(a, b) has completed
C5_Witness ==
    /\ last.op = "remove_friend" /\ last.symm /\ last.a # last.b
    /\ last.was_friend
    /\ \E n \in DOMAIN booknotes : booknotes[n].user = last.b
    /\ Feed(last.a) # <<>>

\* C6: search_friend(u, q) returns exactly the users matching q other than u
\* and other than the users f for which a row u->f exists.
C6_SearchExclusion ==
    \A u \in UserIds, q \in Queries :
        search_friend(users, friend_relations, u, q) =
            {f \in UserIds : /\ f # u
                             /\ ~Related(u, f)
                             /\ \/ contains(users[f].username, q)
                                \/ contains(users[f].fullname, q)}

----------------------------------------------------------------------------
(* Concurrent requests.  No request opens a transaction, so each statement *)
(* a request sends (SELECT, INSERT, DELETE) commits on its own and the     *)
(* statements of different requests interleave.  get_or_create is a SELECT *)
(* followed, on a miss, by an INSERT, and on IntegrityError by a second    *)
(* SELECT whose miss re-raises the error and ends the request.             *)

\* the frame of the call self.add_friend(friend, symm), about to SELECT
AddFrame(self, friend, symm) ==
    [self |-> self, friend |-> friend, symm |-> symm, op |-> "add_friend",
     pc |-> "get"]

\* the frame of the call self.remove_friend(friend, symm), about to DELETE
RemoveFrame(self, friend, symm) ==
    [self |-> self, friend |-> friend, symm |-> symm, op |-> "remove_friend",
     pc |-> "delete"]

Idle == [pc |-> "idle"]

\* `if symm: friend.<op>(self, False)`: the inner call, or the return
AfterOwnRow(f) ==
    IF f.symm
    THEN IF f.op = "add_friend"
         THEN AddFrame(f.friend, f.self, FALSE)
         ELSE RemoveFrame(f.friend, f.self, FALSE)
    ELSE Idle

\* a worker takes the request a.add_friend(b, symm)
StartAddFriend(p, a, b, symm) ==
    /\ procs[p].pc = "idle"
    /\ procs' = [procs EXCEPT ![p] = AddFrame(a, b, symm)]
    /\ UNCHANGED <<users, friend_relations, booknotes, booknote_likeit, last>>

\* a worker takes the request a.remove_friend(b, symm)
StartRemoveFriend(p, a, b, symm) ==
    /\ procs[p].pc = "idle"
    /\ procs' = [procs EXCEPT ![p] = RemoveFrame(a, b, symm)]
    /\ UNCHANGED <<users, friend_relations, booknotes, booknote_likeit, last>>

\* get_or_create, first statement: SELECT the row
Get(p) ==
    LET f == procs[p]
    IN  /\ f.pc = "get"
        /\ procs' = [procs EXCEPT ![p] =
                IF filter_relation(friend_relations, f.self, f.friend) # {}
                THEN AfterOwnRow(f)
                ELSE [f EXCEPT !.pc = "create"]]
        /\ UNCHANGED <<users, friend_relations, booknotes, booknote_likeit, last>>

\* get_or_create, second statement: INSERT, refused on a duplicate
Create(p) ==
    LET f == procs[p]
        res == create_relation(friend_relations, f.self, f.friend)
    IN  /\ f.pc = "create"
        /\ friend_relations' = res.rows
        /\ procs' = [procs EXCEPT ![p] =
                IF res.ok THEN AfterOwnRow(f) ELSE [f EXCEPT !.pc = "reget"]]
        /\ UNCHANGED <<users, booknotes, booknote_likeit, last>>

\* get_or_create after IntegrityError: SELECT again; a miss re-raises
Reget(p) ==
    LET f == procs[p]
    IN  /\ f.pc = "reget"
        /\ procs' = [procs EXCEPT ![p] =
                IF filter_relation(friend_relations, f.self, f.friend) # {}
                THEN AfterOwnRow(f)
                ELSE Idle]
        /\ UNCHANGED <<users, friend_relations, booknotes, booknote_likeit, last>>

\* remove_friend's statement: one DELETE of the rows of the pair
Delete(p) ==
    LET f == procs[p]
    IN  /\ f.pc = "delete"
        /\ friend_relations' = delete_relation(friend_relations, f.self, f.friend)
        /\ procs' = [procs EXCEPT ![p] = AfterOwnRow(f)]
        /\ UNCHANGED <<users, booknotes, booknote_likeit, last>>

Procs == DOMAIN procs

NextConc ==
    \/ \E p \in Procs, a \in UserIds, b \in UserIds, symm \in BOOLEAN :
           StartAddFriend(p, a, b, symm)
    \/ \E p \in Procs, a \in UserIds, b \in UserIds, symm \in BOOLEAN :
           StartRemoveFriend(p, a, b, symm)
    \/ \E p \in Procs : Get(p)
    \/ \E p \in Procs : Create(p)
    \/ \E p \in Procs : Reget(p)
    \/ \E p \in Procs : Delete(p)

\* SpecConc: requests of either kind, interleaved statement by statement
SpecConc == Init /\ [][NextConc]_vars

NextConcSymm ==
    \/ \E p \in Procs, a \in UserIds, b \in UserIds : StartAddFriend(p, a, b, TRUE)
    \/ \E p \in Procs, a \in UserIds, b \in UserIds : StartRemoveFriend(p, a, b, TRUE)
    \/ \E p \in Procs : Get(p)
    \/ \E p \in Procs : Create(p)
    \/ \E p \in Procs : Reget(p)
    \/ \E p \in Procs : Delete(p)

\* SpecConcSymm: symmetric requests only, interleaved statement by statement
SpecConcSymm == Init /\ [][NextConcSymm]_vars

\* number of rows the table holds for the ordered pair (a, b)
PairCount(a, b) ==
    CountRows(friend_relations, filter_relation(friend_relations, a, b))

\* no request is in flight
Quiescent == \A p \in Procs : procs[p].pc = "idle"

\* C2: under every interleaving of add_friend / remove_friend requests the
\* table holds at most one row per ordered pair; a writer whose INSERT meets
\* an existing row is in the IntegrityError branch and the row is there once;
\* and add_friend repeated on its own result leaves the table as it is.
C2_PairUniqueness ==
    /\ \A a \in UserIds, b \in UserIds : PairCount(a, b) <= 1
    /\ \A a \in UserIds, b \in UserIds, symm \in BOOLEAN :
           LET once == add_friend([rows |-> friend_relations, calls |-> <<>>],
                                  a, b, symm)
           IN  add_friend(once, a, b, symm).rows = once.rows

\* C2 witness: two writers raced on the same pair; one is in the
\* IntegrityError branch and the pair's row exists exactly once
C2_Witness ==
    \E p \in Procs :
        /\ procs[p].pc = "reget"
        /\ PairCount(procs[p].self, procs[p].friend) = 1

\* C10: when only symmetric requests run, interleaved, then once every
\* request has completed a row a->b exists iff a row b->a exists.
C10_SymmetryUnderInterleaving ==
    Quiescent => \A a \in UserIds, b \in UserIds : Related(a, b) <=> Related(b, a)

----------------------------------------------------------------------------
(* booknote_likeit *)

\* a BookNoteLikeit row
BookNoteLikeit(user, note) == [user |-> user, note |-> note]

\* a table in which the unique index is not enforced
likeit_unique_together_off(rows, user, note) == TRUE

\* Meta.unique_together = (("user", "note"),): may (user, note) be inserted?
likeit_unique_together(rows, user, note) ==
    {r \in BagToSet(rows) : r.user = user /\ r.note = note} = {}

\* like_note: INSERT of the like row, refused by the storage layer on a duplicate
like_note(rows, user, note) ==
    IF likeit_unique_together(rows, user, note)
    THEN [rows |-> rows (+) SetToBag({BookNoteLikeit(user, note)}), ok |-> TRUE]
    ELSE [rows |-> rows, ok |-> FALSE]

\* BookNote.to_json's 'likeit': self.likeit.count()
likeit_count(rows, note) ==
    CountRows(rows, {r \in BagToSet(rows) : r.note = note})

\* the request like_note(u, n)
LikeNote(u, n) ==
    LET res == like_note(booknote_likeit, u, n)
    IN  /\ booknote_likeit' = res.rows
        /\ last' = [ok |-> res.ok, user |-> u, op |-> "like_note", note |-> n,
                    added |-> BagCardinality(res.rows)
                                  - BagCardinality(booknote_likeit)]
        /\ UNCHANGED <<users, friend_relations, booknotes, procs>>

NextLike ==
    \/ \E u \in UserIds, share_to \in SHARE_CHOICES : CreateNote(u, share_to)
    \/ \E u \in UserIds, n \in DOMAIN booknotes : LikeNote(u, n)

\* SpecLike: notes are posted and liked.  The INSERT is one statement, so
\* concurrent like_note requests take effect in some order, one at a time.
SpecLike == Init /\ [][NextLike]_vars

\* number of like rows for (u, n)
LikeRows(u, n) ==
    CountRows(booknote_likeit,
              {r \in BagToSet(booknote_likeit) : r.user = u /\ r.note = n})

\* C9: however often like_note(u, n) is called, exactly one row (u, n)
\* exists afterwards; a duplicate like is refused and adds no row; the like
\* count of a note is the number of distinct users who liked it.
C9_LikeIdempotence ==
    /\ \A u \in UserIds, n \in DOMAIN booknotes : LikeRows(u, n) <= 1
    /\ last.op = "like_note" =>
           /\ LikeRows(last.user, last.note) = 1
           /\ ~last.ok => last.added = 0
    /\ \A n \in DOMAIN booknotes :
           likeit_count(booknote_likeit, n) =
               Cardinality({u \in UserIds : LikeRows(u, n) >= 1})

\* C9 witness: a repeated like was refused, and another user likes the same note
C9_Witness ==
    /\ last.op = "like_note" /\ ~last.ok
    /\ likeit_count(booknote_likeit, last.note) = 2

----------------------------------------------------------------------------
(* UserManager.create_user *)

\* str.lower() on the characters in use
Lower(c) == CASE c = "X" -> "x" [] c = "A" -> "a" [] c = "B" -> "b" [] OTHER -> c

\* the last position of "@" in s, 0 if none
RECURSIVE LastAt(_, _)
LastAt(s, i) == IF i = 0 THEN 0 ELSE IF s[i] = "@" THEN i ELSE LastAt(s, i - 1)

\* BaseUserManager.normalize_email: lower-cases the domain part
normalize_email(email) ==
    LET e == IF Falsy(email) THEN <<>> ELSE email
        at == LastAt(e, Len(e))
    IN  IF at = 0 THEN e
        ELSE [i \in 1..Len(e) |-> IF i > at THEN Lower(e[i]) ELSE e[i]]

\* set_password that keeps the raw password
set_password_plain(raw) == raw

\* user.set_password(raw): the stored credential; None gives an unusable one
set_password(raw) ==
    IF raw = None THEN <<"!">> ELSE <<"pbkdf2", "$">> \o raw

\* users.username and users.email are unique=True: may the row `row`
\* be stored at position `at` (Len + 1 for an INSERT)?
users_unique(tbl, row, at) ==
    \A i \in DOMAIN tbl :
        i # at => (tbl[i].username # row.username /\ tbl[i].email # row.email)

\* create_user(username, password, **kwargs): the error raised and the table
create_user(tbl, username, password, kwargs) ==
    IF Falsy(username) THEN [users |-> tbl, error |-> "ValueError"]
    ELSE IF Falsy(kwargs.email) THEN [users |-> tbl, error |-> "ValueError"]
    ELSE IF Falsy(kwargs.fullname) THEN [users |-> tbl, error |-> "ValueError"]
    ELSE IF Falsy(kwargs.birthday) THEN [users |-> tbl, error |-> "ValueError"]
    ELSE IF Falsy(kwargs.sex) THEN [users |-> tbl, error |-> "ValueError"]
    ELSE
        LET user == [username |-> username,
                     email |-> normalize_email(kwargs.email),
                     fullname |-> kwargs.fullname,
                     birthday |-> kwargs.birthday,
                     is_staff |-> FALSE,
                     is_active |-> TRUE,
                     is_superuser |-> FALSE,
                     sex |-> kwargs.sex,
                     tagline |-> <<>>,
                     password |-> set_password(password)]
        IN  IF users_unique(tbl, user, Len(tbl) + 1)
            THEN [users |-> Append(tbl, user), error |-> "none"]
            ELSE [users |-> tbl, error |-> "IntegrityError"]

\* the values a signup request may carry (None: the keyword is not sent, or
\* None is passed)
SignupUsernames == {<<>>, <<"a">>, <<"b">>}
SignupPasswords == {None, <<>>, <<"p">>}
SignupEmails    == {None, <<>>, <<"a", "@", "X">>, <<"a", "@", "x">>, <<"b", "@", "x">>}
SignupFullnames == {<<>>, <<"z">>}
SignupBirthdays == {None, <<"1">>}
SignupSexes     == {<<>>, <<"F">>}

\* the request create_user(username, password, email=..., fullname=..., ...)
CreateUser(username, password, kwargs) ==
    LET res == create_user(users, username, password, kwargs)
    IN  /\ Len(users) < MaxUsers
        /\ users' = res.users
        /\ last' = [username |-> username, password |-> password,
                    op |-> "create_user", kwargs |-> kwargs,
                    error |-> res.error, before |-> users]
        /\ UNCHANGED <<friend_relations, booknotes, booknote_likeit, procs>>

InitEmpty ==
    /\ users = <<>>
    /\ friend_relations = EmptyBag
    /\ booknotes = <<>>
    /\ booknote_likeit = EmptyBag
    /\ procs = [p \in 1..NumProcs |-> [pc |-> "idle"]]
    /\ last = NoOp

NextSignup ==
    \E username \in SignupUsernames, password \in SignupPasswords,
       email \in SignupEmails, fullname \in SignupFullnames,
       birthday \in SignupBirthdays, sex \in SignupSexes :
        CreateUser(username, password,
                   [email |-> email, fullname |-> fullname,
                    birthday |-> birthday, sex |-> sex])

\* SpecSignup: signups into an empty users table
SpecSignup == InitEmpty /\ [][NextSignup]_vars

\* the last signup request left one of the five checked fields empty
CheckedFieldMissing ==
    \/ Falsy(last.username) \/ Falsy(last.kwargs.email)
    \/ Falsy(last.kwargs.fullname) \/ Falsy(last.kwargs.birthday)
    \/ Falsy(last.kwargs.sex)

\* the last signup request's username or normalised e-mail was already taken
Taken ==
    \E i \in DOMAIN last.before :
        \/ last.before[i].username = last.username
        \/ last.before[i].email = normalize_email(last.kwargs.email)

\* the last signup request stored exactly one user: active, credential hashed
StoredOne ==
    /\ last.error = "none"
    /\ Len(users) = Len(last.before) + 1
    /\ SubSeq(users, 1, Len(last.before)) = last.before
    /\ users[Len(users)].is_active
    /\ users[Len(users)].username = last.username
    /\ users[Len(users)].password # last.password
    /\ users[Len(users)].password \notin SignupPasswords

\* C7 as stated: a signup with any of the six fields (password included)
\* missing or empty fails and leaves the table unchanged; with all six
\* present it stores exactly one active user with a hashed credential.
C7_AsStated ==
    last.op = "create_user" =>
        IF CheckedFieldMissing \/ Falsy(last.password)
        THEN last.error # "none" /\ users = last.before
        ELSE StoredOne

\* C7 amended: a signup with username, email, fullname, birthday or sex
\* missing or empty fails with the validation error and leaves the table
\* unchanged; a refused duplicate username or e-mail leaves it unchanged
\* too; otherwise, whatever the password (missing and empty included),
\* exactly one active user is stored, its credential never the plaintext.
C7_SignupAllOrNothing ==
    last.op = "create_user" =>
        /\ CheckedFieldMissing => last.error = "ValueError" /\ users = last.before
        /\ (~CheckedFieldMissing /\ Taken) =>
               last.error = "IntegrityError" /\ users = last.before
        /\ (~CheckedFieldMissing /\ ~Taken) => StoredOne
        /\ last.error # "none" => users = last.before

\* C7 witness: one signup has failed validation with a user already stored,
\* the table untouched
C7_Witness ==
    /\ last.op = "create_user" /\ last.error = "ValueError"
    /\ Len(users) = 1 /\ users = last.before

----------------------------------------------------------------------------
(* UserSerializer.Meta.update *)

\* dict.get(key, default)
get(data, key, default) == IF key \in DOMAIN data THEN data[key] ELSE default

\* update(instance, validated_data) on the row `id`: the error raised and
\* the table.  The first save() writes the profile fields; it is refused on a
\* duplicate e-mail.  The second save() writes the new credential.
update(tbl, id, validated_data) ==
    LET instance == tbl[id]
        edited == [instance EXCEPT
                     !.email    = get(validated_data, "email", instance.username),
                     !.fullname = get(validated_data, "fullname", instance.fullname),
                     !.birthday = get(validated_data, "birthday", instance.birthday),
                     !.sex      = get(validated_data, "sex", instance.sex),
                     !.tagline  = get(validated_data, "tagline", instance.tagline)]
        password == get(validated_data, "password", None)
        confirm_password == get(validated_data, "confirm_password", None)
    IN  IF ~users_unique(tbl, edited, id)
        THEN [users |-> tbl, error |-> "IntegrityError"]
        ELSE IF ~Falsy(password) /\ ~Falsy(confirm_password)
                   /\ password = confirm_password
             THEN [users |-> [tbl EXCEPT ![id] =
                                 [edited EXCEPT !.password = set_password(password)]],
                   error |-> "none"]
             ELSE [users |-> [tbl EXCEPT ![id] = edited], error |-> "none"]

\* the validated_data of the profile requests tried
ProfileInputs ==
    << [k \in {} |-> <<>>],
       [email |-> <<"c", "@", "x">>],
       [email |-> <<"b", "@", "x">>],
       [fullname |-> <<"y">>, tagline |-> <<"t">>],
       [birthday |-> <<"2">>, sex |-> <<"M">>],
       [password |-> <<"q">>, confirm_password |-> <<"q">>],
       [password |-> <<"q">>, confirm_password |-> <<"r">>],
       [password |-> <<"q">>],
       [email |-> <<"c", "@", "x">>, fullname |-> <<"y">>,
        password |-> <<"q">>, confirm_password |-> <<"r">>] >>

\* the request that updates the profile of user `id`
Update(id, k) ==
    LET res == update(users, id, ProfileInputs[k])
    IN  /\ users' = res.users
        /\ last' = [op |-> "update", error |-> res.error, before |-> users[id],
                    data |-> ProfileInputs[k], id |-> id]
        /\ UNCHANGED <<friend_relations, booknotes, booknote_likeit, procs>>

NextProfile == \E id \in UserIds, k \in DOMAIN ProfileInputs : Update(id, k)

\* SpecProfile: profile updates of the first two users
SpecProfile == Init /\ [][NextProfile]_vars

ProfileFields == {"email", "fullname", "birthday", "sex", "tagline"}

\* the last update carried a password without a matching confirmation
PasswordUnconfirmed ==
    /\ "password" \in DOMAIN last.data
    /\ get(last.data, "confirm_password", None) # last.data.password

\* C8: update changes only the supplied ones of email, fullname, birthday,
\* sex and tagline and leaves the others, and username, as they were; a
\* password without a matching confirmation leaves the credential unchanged,
\* raises no error, and the other supplied fields are still applied.
C8_PartialUpdate ==
    last.op = "update" =>
        LET row == users[last.id]
        IN  /\ \A f \in ProfileFields \ DOMAIN last.data : row[f] = last.before[f]
            /\ row.username = last.before.username
            /\ PasswordUnconfirmed =>
                   /\ row.password = last.before.password
                   /\ last.error = "none"
                   /\ \A f \in ProfileFields \cap DOMAIN last.data :
                          row[f] = last.data[f]

====
